---- MODULE Spec2Model ----
(***************************************************************************)
(* Model of scripts/create-linear-issues.py: the module-level credential   *)
(* check, the graphql transport, get_team_id, create_issue and main.       *)
(* JSON values and Python strings are modelled structurally so that the    *)
(* dict.get / subscript / truthiness / str.join semantics of the script    *)
(* decide every outcome.  The remote service is the environment.           *)
(***************************************************************************)
EXTENDS Integers, Sequences, FiniteSets, TLC

\* Number of process invocations explored against the same remote service.
MaxRuns == 2

(***************************************************************************)
(* Python / JSON values.  A value is a record tagged by t.  A Python str   *)
(* is a sequence of one-character strings, so that "".join can be modelled *)
(* character by character.  A raised exception is the value Raise(exc).    *)
(***************************************************************************)
Null == [t |-> "null"]
Str(s) == [t |-> "str", s |-> s]
Num(n) == [t |-> "num", n |-> n]
JList(items) == [t |-> "list", items |-> items]
Obj(m) == [t |-> "obj", m |-> m]
Raise(exc) == [t |-> "raise", exc |-> exc]

NoKeys == [k \in {} |-> Null]
EmptyObj == Obj(NoKeys)
EmptyList == JList(<<>>)
EmptyStr == Str(<<>>)

IsRaise(v) == v.t = "raise"

\* bool(v) as Python computes it for `if not nodes` and `if identifier`.
Truthy(v) ==
  CASE v.t = "null" -> FALSE
    [] v.t = "str" -> Len(v.s) > 0
    [] v.t = "num" -> v.n # 0
    [] v.t = "list" -> Len(v.items) > 0
    [] v.t = "obj" -> DOMAIN v.m # {}
    [] OTHER -> FALSE

\* d.get(k, default): only a dict has .get; an exception in d propagates.
Get(d, k, default) ==
  IF IsRaise(d) THEN d
  ELSE IF d.t = "obj" THEN (IF k \in DOMAIN d.m THEN d.m[k] ELSE default)
  ELSE Raise("AttributeError")

\* v[0]
Index0(v) ==
  IF IsRaise(v) THEN v
  ELSE CASE v.t = "list" -> (IF Len(v.items) > 0 THEN v.items[1] ELSE Raise("IndexError"))
         [] v.t = "str" -> (IF Len(v.s) > 0 THEN Str(<<v.s[1]>>) ELSE Raise("IndexError"))
         [] v.t = "obj" -> Raise("KeyError")
         [] OTHER -> Raise("TypeError")

\* v["k"] for a string key k
Subscript(v, k) ==
  IF IsRaise(v) THEN v
  ELSE IF v.t = "obj" THEN (IF k \in DOMAIN v.m THEN v.m[k] ELSE Raise("KeyError"))
  ELSE Raise("TypeError")

\* sep.join(strs): every element must be a str, else TypeError.
RECURSIVE JoinChars(_, _)
JoinChars(sep, strs) ==
  IF Len(strs) = 0 THEN <<>>
  ELSE IF Len(strs) = 1 THEN strs[1].s
  ELSE strs[1].s \o sep \o JoinChars(sep, Tail(strs))

Join(sep, vals) ==
  IF \E j \in 1..Len(vals) : vals[j].t # "str" THEN Raise("TypeError")
  ELSE Str(JoinChars(sep, vals))

\* Faulty variant: the summary keeps the empty placeholders
Filtered_KeepsPlaceholders(vals) == vals

IsTruthyVal(v) == Truthy(v)
\* [i for i in identifiers if i]
Filtered(vals) == SelectSeq(vals, IsTruthyVal)


(***************************************************************************)
(* Program constants.                                                      *)
(***************************************************************************)
\* TICKETS (5 drafts: title, description; descriptions abbreviated to their
\* first sentence, which is enough to tell them apart).
TICKETS == <<
  [title |-> "Fix login page crash on mobile Safari",
   description |-> "The login form throws an unhandled exception on iOS Safari 17 when the password field gains focus."],
  [title |-> "Add dark mode toggle to settings page",
   description |-> "Users should be able to switch between light and dark mode from the settings panel."],
  [title |-> "Refactor user service to use repository pattern",
   description |-> "The UserService currently has direct database calls mixed with business logic."],
  [title |-> "API rate limiting returns wrong HTTP status code",
   description |-> "When rate limit is exceeded the API returns 500 instead of 429 Too Many Requests."],
  [title |-> "Add export to CSV for dashboard reports",
   description |-> "Product wants users to be able to export the analytics dashboard data as CSV."] >>

\* Faulty variant: the loop stops one draft short
NumTickets_DropsLast == Len(TICKETS) - 1

NumTickets == Len(TICKETS)

(***************************************************************************)
(* The execution environment: which of the two variables are set, and to   *)
(* what.  os.environ.get(name, "") yields "" for an unset variable.        *)
(***************************************************************************)
EnvNames == {"LINEAR_API_KEY", "LINEAR_TEAM_KEY"}
EnvValues(name) == IF name = "LINEAR_API_KEY" THEN {"", "lin_api_test"} ELSE {"", "ENG"}
Envs ==
  {e \in UNION {[D -> {"", "lin_api_test", "ENG"}] : D \in SUBSET EnvNames} :
     \A name \in DOMAIN e : e[name] \in EnvValues(name)}

\* Faulty variant: an unset variable reads as a non-empty placeholder
EnvironGet_Placeholder(e, name, default) == IF name \in DOMAIN e THEN e[name] ELSE "<unset>"

EnvironGet(e, name, default) == IF name \in DOMAIN e THEN e[name] ELSE default

(***************************************************************************)
(* Response bodies the remote service (or anything on the path to it) may  *)
(* send, as text, and json.loads as the table text -> value.  Text that is *)
(* not JSON raises JSONDecodeError.                                        *)
(***************************************************************************)
S_t1 == Str(<<"t", "1">>)
S_t2 == Str(<<"t", "2">>)
S_Eng == Str(<<"E", "n", "g">>)
S_Ops == Str(<<"O", "p", "s">>)
S_ENG == Str(<<"E", "N", "G">>)
S_OPS == Str(<<"O", "P", "S">>)
S_ENG1 == Str(<<"E", "N", "G", "-", "1">>)
S_ENG2 == Str(<<"E", "N", "G", "-", "2">>)
S_u1 == Str(<<"u", "1">>)
S_u2 == Str(<<"u", "2">>)
S_i1 == Str(<<"i", "1">>)
S_msg == Str(<<"n", "o">>)
V_errors == JList(<<Obj([message |-> S_msg])>>)

B_team1 == "{\"data\":{\"teams\":{\"nodes\":[{\"id\":\"t1\",\"name\":\"Eng\",\"key\":\"ENG\"}]}}}"
B_team12 == "{\"data\":{\"teams\":{\"nodes\":[{\"id\":\"t1\",\"name\":\"Eng\",\"key\":\"ENG\"},{\"id\":\"t2\",\"name\":\"Ops\",\"key\":\"ENG\"}]}}}"
B_teamNoId == "{\"data\":{\"teams\":{\"nodes\":[{\"name\":\"Eng\",\"key\":\"ENG\"}]}}}"
B_noTeams == "{\"data\":{\"teams\":{\"nodes\":[]}}}"
B_empty == "{}"
B_dataNull == "{\"errors\":[{\"message\":\"no\"}],\"data\":null}"
B_errorsOnly == "{\"errors\":[{\"message\":\"no\"}]}"
B_all == "{\"data\":{\"teams\":{\"nodes\":[{\"key\":\"ENG\",\"name\":\"Eng\"},{\"key\":\"OPS\",\"name\":\"Ops\"}]}}}"
B_allNoName == "{\"data\":{\"teams\":{\"nodes\":[{\"key\":\"ENG\",\"name\":\"Eng\"},{\"key\":\"OPS\"}]}}}"
B_ok1 == "{\"data\":{\"issueCreate\":{\"success\":true,\"issue\":{\"id\":\"i1\",\"identifier\":\"ENG-1\",\"url\":\"u1\"}}}}"
B_ok2 == "{\"data\":{\"issueCreate\":{\"success\":true,\"issue\":{\"id\":\"i1\",\"identifier\":\"ENG-2\",\"url\":\"u2\"}}}}"
B_noIssue == "{\"data\":{\"issueCreate\":{\"success\":false}}}"
B_issueNull == "{\"data\":{\"issueCreate\":{\"success\":false,\"issue\":null}}}"
B_noUrl == "{\"data\":{\"issueCreate\":{\"success\":true,\"issue\":{\"id\":\"i1\",\"identifier\":\"ENG-1\"}}}}"
B_noIdent == "{\"data\":{\"issueCreate\":{\"success\":true,\"issue\":{\"id\":\"i1\",\"url\":\"u1\"}}}}"
B_numIdent == "{\"data\":{\"issueCreate\":{\"success\":true,\"issue\":{\"id\":\"i1\",\"identifier\":7,\"url\":\"u1\"}}}}"
B_html == "<html>502 Bad Gateway</html>"

TeamsValue(nodes) == Obj([data |-> Obj([teams |-> Obj([nodes |-> JList(nodes)])])])
IssueCreateValue(payload) == Obj([data |-> Obj([issueCreate |-> Obj(payload)])])

JsonLoads(text) ==
  CASE text = B_team1 ->
         TeamsValue(<<Obj([id |-> S_t1, name |-> S_Eng, key |-> S_ENG])>>)
    [] text = B_team12 ->
         TeamsValue(<<Obj([id |-> S_t1, name |-> S_Eng, key |-> S_ENG]),
                      Obj([id |-> S_t2, name |-> S_Ops, key |-> S_ENG])>>)
    [] text = B_teamNoId -> TeamsValue(<<Obj([name |-> S_Eng, key |-> S_ENG])>>)
    [] text = B_noTeams -> TeamsValue(<<>>)
    [] text = B_empty -> EmptyObj
    [] text = B_dataNull -> Obj([errors |-> V_errors, data |-> Null])
    [] text = B_errorsOnly -> Obj([errors |-> V_errors])
    [] text = B_all ->
         TeamsValue(<<Obj([key |-> S_ENG, name |-> S_Eng]), Obj([key |-> S_OPS, name |-> S_Ops])>>)
    [] text = B_allNoName ->
         TeamsValue(<<Obj([key |-> S_ENG, name |-> S_Eng]), Obj([key |-> S_OPS])>>)
    [] text = B_ok1 ->
         IssueCreateValue([success |-> Num(1),
                           issue |-> Obj([id |-> S_i1, identifier |-> S_ENG1, url |-> S_u1])])
    [] text = B_ok2 ->
         IssueCreateValue([success |-> Num(1),
                           issue |-> Obj([id |-> S_i1, identifier |-> S_ENG2, url |-> S_u2])])
    [] text = B_noIssue -> IssueCreateValue([success |-> Num(0)])
    [] text = B_issueNull -> IssueCreateValue([success |-> Num(0), issue |-> Null])
    [] text = B_noUrl ->
         IssueCreateValue([success |-> Num(1), issue |-> Obj([id |-> S_i1, identifier |-> S_ENG1])])
    [] text = B_noIdent ->
         IssueCreateValue([success |-> Num(1), issue |-> Obj([id |-> S_i1, url |-> S_u1])])
    [] text = B_numIdent ->
         IssueCreateValue([success |-> Num(1),
                           issue |-> Obj([id |-> S_i1, identifier |-> Num(7), url |-> S_u1])])
    [] OTHER -> Raise("JSONDecodeError")

JsonBodies == {B_team1, B_team12, B_teamNoId, B_noTeams, B_empty, B_dataNull, B_errorsOnly,
               B_all, B_allNoName, B_ok1, B_ok2, B_noIssue, B_issueNull, B_noUrl, B_noIdent,
               B_numIdent}

(***************************************************************************)
(* What comes back for one request: the connection fails, or an HTTP       *)
(* response with a status and a body arrives.                              *)
(***************************************************************************)
NetFail == [net |-> "fail", status |-> 0, body |-> ""]
NoResponse == [net |-> "none", status |-> 0, body |-> ""]
Http(status, body) == [net |-> "ok", status |-> status, body |-> body]

LookupBodies == {B_team1, B_team12, B_teamNoId, B_noTeams, B_empty, B_dataNull, B_errorsOnly}
ListingBodies == {B_all, B_allNoName, B_noTeams, B_dataNull}
MutationBodies == {B_ok1, B_ok2, B_noIssue, B_issueNull, B_dataNull, B_errorsOnly,
                   B_noUrl, B_noIdent, B_numIdent}

Outcomes(bodies) ==
  {NetFail} \cup {Http(200, b) : b \in bodies \cup {B_html}}
            \cup {Http(st, B_errorsOnly) : st \in {400, 500}}

\* Whether the service has stored an issue when it answers a mutation this
\* way: a response carrying an issue object means it has; a lost connection
\* may have been lost before or after the service acted.
ServiceCreates(o) ==
  IF o.net = "fail" THEN {TRUE, FALSE}
  ELSE IF o.status = 200 /\ o.body \in {B_ok1, B_ok2, B_noUrl, B_noIdent, B_numIdent} THEN {TRUE}
  ELSE {FALSE}

TransportErrors == {"URLError", "HTTPError", "JSONDecodeError"}

\* Faulty variant: a decoded response carrying `errors` is turned into an exception
graphql_RaisesOnErrors(o) ==
  IF o.net = "fail" THEN Raise("URLError")
  ELSE IF o.status >= 400 THEN Raise("HTTPError")
  ELSE IF JsonLoads(o.body).t = "obj" /\ "errors" \in DOMAIN JsonLoads(o.body).m
    THEN Raise("HTTPError")
  ELSE JsonLoads(o.body)

\* graphql(): urlopen raises URLError when the connection fails and
\* HTTPError for an error status; otherwise the body is read and decoded.
graphql(o) ==
  IF o.net = "fail" THEN Raise("URLError")
  ELSE IF o.status >= 400 THEN Raise("HTTPError")
  ELSE JsonLoads(o.body)


(***************************************************************************)
(* get_team_id and create_issue, as functions of the decoded response.     *)
(***************************************************************************)
\* get_team_id line 64
TeamNodes(data) ==
  Get(Get(Get(data, "data", EmptyObj), "teams", EmptyObj), "nodes", EmptyList)

\* get_team_id line 72: (nodes[0]["id"], nodes[0]["name"]), or what it raises
TeamOf(nodes) ==
  LET id == Subscript(Index0(nodes), "id")
      name == Subscript(Index0(nodes), "name")
  IN  IF IsRaise(id) THEN id
      ELSE IF IsRaise(name) THEN name
      ELSE [t |-> "tuple", id |-> id, name |-> name]

\* create_issue lines 85-86: (identifier, url), or what it raises
IssueOf(data) ==
  Get(Get(Get(data, "data", EmptyObj), "issueCreate", EmptyObj), "issue", EmptyObj)

\* Faulty variant: a failed transport is swallowed and reported as a soft failure
create_issue_SwallowsTransport(data) ==
  LET issue == IssueOf(data)
      identifier == Get(issue, "identifier", EmptyStr)
      url == Get(issue, "url", EmptyStr)
  IN  IF IsRaise(data) THEN [t |-> "tuple", identifier |-> EmptyStr, url |-> EmptyStr]
      ELSE IF IsRaise(identifier) THEN identifier
      ELSE IF IsRaise(url) THEN url
      ELSE [t |-> "tuple", identifier |-> identifier, url |-> url]

create_issue(data) ==
  LET issue == IssueOf(data)
      identifier == Get(issue, "identifier", EmptyStr)
      url == Get(issue, "url", EmptyStr)
  IN  IF IsRaise(identifier) THEN identifier
      ELSE IF IsRaise(url) THEN url
      ELSE [t |-> "tuple", identifier |-> identifier, url |-> url]

(***************************************************************************)
(* State.                                                                  *)
(***************************************************************************)
VARIABLES
  env,          \* the process environment
  API_KEY,      \* module global
  TEAM_KEY,     \* module global
  pc,           \* where the process is
  exitCode,     \* -1 while running, else the process exit status
  exitPath,     \* how the process ended
  requests,     \* the requests handed to urlopen so far, in order
  inflight,     \* requests sent whose response has not been read
  response,     \* what urlopen gave for the last request, once it has
  team_id,      \* main's team_id
  team_name,    \* main's team_name
  idx,          \* position of main's loop in TICKETS
  identifiers,  \* main's identifiers list
  stdout,       \* lines printed to standard output
  stderr,       \* lines printed to standard error
  created,      \* drafts of this run for which the service stored an issue
  remoteCount,  \* issues stored by the service, over all runs
  startCount,   \* remoteCount when this run started
  run           \* number of this process invocation

vars == <<env, API_KEY, TEAM_KEY, pc, exitCode, exitPath, requests, inflight, response, team_id,
          team_name, idx, identifiers, stdout, stderr, created, remoteCount, startCount, run>>

Line(kind, x, y) == [kind |-> kind, x |-> x, y |-> y]
Request(query, key, tid, title, description) ==
  [query |-> query, key |-> key, teamId |-> tid, title |-> title, description |-> description]

Fresh(e) ==
  /\ env = e
  /\ API_KEY = ""
  /\ TEAM_KEY = ""
  /\ pc = "load"
  /\ exitCode = -1
  /\ exitPath = "none"
  /\ requests = <<>>
  /\ inflight = 0
  /\ response = NoResponse
  /\ team_id = Null
  /\ team_name = Null
  /\ idx = 0
  /\ identifiers = <<>>
  /\ stdout = <<>>
  /\ stderr = <<>>
  /\ created = {}

Init ==
  /\ \E e \in Envs : Fresh(e)
  /\ remoteCount = 0
  /\ startCount = 0
  /\ run = 1

\* sys.exit(code), the end of the script, or an uncaught exception
Exit(code, path) ==
  /\ pc' = "exited"
  /\ exitCode' = code
  /\ exitPath' = path

\* an exception nobody catches: traceback on stderr, exit status 1
Uncaught(exc, err) ==
  /\ Exit(1, IF exc.exc \in TransportErrors THEN "transport" ELSE "exception")
  /\ stderr' = Append(err, Line("traceback", exc.exc, ""))

\* Lines 9-20: read the two variables, exit 1 if either is empty.
Startup ==
  /\ pc = "load"
  /\ API_KEY' = EnvironGet(env, "LINEAR_API_KEY", "")
  /\ TEAM_KEY' = EnvironGet(env, "LINEAR_TEAM_KEY", "")
  /\ IF API_KEY' = ""
       THEN /\ stderr' = stderr \o <<Line("error", "LINEAR_API_KEY env var is required.", ""),
                                     Line("hint", "https://linear.app/settings/api", ""),
                                     Line("usage", "", "")>>
            /\ Exit(1, "missing_credential")
       ELSE IF TEAM_KEY' = ""
         THEN /\ stderr' = Append(stderr, Line("error", "LINEAR_TEAM_KEY env var is required", ""))
              /\ Exit(1, "missing_credential")
         ELSE /\ pc' = "main"
              /\ UNCHANGED <<stderr, exitCode, exitPath>>
  /\ UNCHANGED <<env, requests, inflight, response, team_id, team_name, idx, identifiers, stdout,
                 created, remoteCount, startCount, run>>

\* Lines 90-95, 61-63: the banner, then get_team_id sends the filtered lookup.
SendLookup ==
  /\ pc = "main"
  /\ stdout' = stdout \o <<Line("rule", "", ""), Line("title", "", ""),
                           Line("rule", "", ""), Line("blank", "", "")>>
  /\ requests' = Append(requests, Request("teams_filtered", TEAM_KEY, Null, "", ""))
  /\ inflight' = inflight + 1
  /\ response' = NoResponse
  /\ pc' = "lookup_wait"
  /\ UNCHANGED <<env, API_KEY, TEAM_KEY, exitCode, exitPath, team_id, team_name, idx,
                 identifiers, stderr, created, remoteCount, startCount, run>>

\* Lines 56-57, 64-72, 96-99: the lookup's response is read and acted on.
RecvLookup ==
  /\ pc = "lookup_wait"
  /\ \E o \in Outcomes(LookupBodies) :
       LET data == graphql(o)
           nodes == TeamNodes(data)
           team == TeamOf(nodes)
       IN  /\ inflight' = inflight - 1
           /\ response' = o
           /\ IF IsRaise(nodes)
                THEN /\ Uncaught(nodes, stderr)
                     /\ UNCHANGED <<team_id, team_name, idx, stdout>>
                ELSE IF ~Truthy(nodes)
                  THEN /\ stderr' = Append(stderr, Line("error", "No team found with key", TEAM_KEY))
                       /\ pc' = "listing"
                       /\ UNCHANGED <<exitCode, exitPath, team_id, team_name, idx, stdout>>
                  ELSE IF IsRaise(team)
                    THEN /\ Uncaught(team, stderr)
                         /\ UNCHANGED <<team_id, team_name, idx, stdout>>
                    ELSE /\ team_id' = team.id
                         /\ team_name' = team.name
                         /\ stdout' = stdout \o <<Line("team", TEAM_KEY, team.name),
                                                  Line("blank", "", "")>>
                         /\ idx' = 1
                         /\ pc' = "create"
                         /\ UNCHANGED <<exitCode, exitPath, stderr>>
  /\ UNCHANGED <<env, API_KEY, TEAM_KEY, requests, identifiers, created, remoteCount,
                 startCount, run>>

\* Faulty variant: sys.exit() without a status
UnresolvedExit_StatusZero == Exit(0, "unresolved_team")

\* Line 71: sys.exit(1) once the available teams are listed
UnresolvedExit == Exit(1, "unresolved_team")

\* Line 68: the unfiltered listing is sent.
SendListing ==
  /\ pc = "listing"
  /\ requests' = Append(requests, Request("teams_all", "", Null, "", ""))
  /\ inflight' = inflight + 1
  /\ response' = NoResponse
  /\ pc' = "listing_wait"
  /\ UNCHANGED <<env, API_KEY, TEAM_KEY, exitCode, exitPath, team_id, team_name, idx,
                 identifiers, stdout, stderr, created, remoteCount, startCount, run>>

\* Lines 69-70: one "Available" line per node, until a node raises.
RECURSIVE Available(_, _)
Available(items, err) ==
  IF Len(items) = 0 THEN [err |-> err, exc |-> Null]
  ELSE LET key == Subscript(items[1], "key")
           name == Subscript(items[1], "name")
       IN  IF IsRaise(key) THEN [err |-> err, exc |-> key]
           ELSE IF IsRaise(name) THEN [err |-> err, exc |-> name]
           ELSE Available(Tail(items), Append(err, Line("available", key, name)))

\* what `for t in v` iterates over.  None and numbers are not iterable; a
\* non-empty dict or str yields strings, and t['key'] on a string raises
\* TypeError before anything is printed.
Iterate(v) ==
  IF IsRaise(v) THEN v
  ELSE IF v.t = "list" THEN v
  ELSE IF v.t \in {"obj", "str"} /\ ~Truthy(v) THEN EmptyList
  ELSE Raise("TypeError")

\* Lines 56-57, 68-71: the listing's response is printed; then sys.exit(1).
RecvListing ==
  /\ pc = "listing_wait"
  /\ \E o \in Outcomes(ListingBodies) :
       LET all_teams == graphql(o)
           nodes == Iterate(TeamNodes(all_teams))
       IN  /\ inflight' = inflight - 1
           /\ response' = o
           /\ IF IsRaise(nodes)
                THEN Uncaught(nodes, stderr)
                ELSE LET r == Available(nodes.items, stderr)
                     IN  IF IsRaise(r.exc)
                           THEN Uncaught(r.exc, r.err)
                           ELSE /\ stderr' = r.err
                                /\ UnresolvedExit
  /\ UNCHANGED <<env, API_KEY, TEAM_KEY, requests, team_id, team_name, idx, identifiers,
                 stdout, created, remoteCount, startCount, run>>


\* Lines 100-101, 84: the loop calls create_issue for TICKETS[idx], which
\* sends the mutation with the team id, the title and the description.
SendCreate ==
  /\ pc = "create"
  /\ requests' = Append(requests, Request("issueCreate", "", team_id,
                                          TICKETS[idx].title, TICKETS[idx].description))
  /\ inflight' = inflight + 1
  /\ response' = NoResponse
  /\ pc' = "create_wait"
  /\ UNCHANGED <<env, API_KEY, TEAM_KEY, exitCode, exitPath, team_id, team_name, idx,
                 identifiers, stdout, stderr, created, remoteCount, startCount, run>>

\* Lines 56-57, 85-86, 102-109: the mutation's response is read; the loop
\* body records the identifier or the placeholder and goes on.
RecvCreate ==
  /\ pc = "create_wait"
  /\ \E o \in Outcomes(MutationBodies) : \E stored \in ServiceCreates(o) :
       LET data == graphql(o)
           res == create_issue(data)
           title == TICKETS[idx].title
       IN  /\ inflight' = inflight - 1
           /\ response' = o
           /\ created' = IF stored THEN created \cup {idx} ELSE created
           /\ remoteCount' = IF stored THEN remoteCount + 1 ELSE remoteCount
           /\ IF IsRaise(res)
                THEN /\ Uncaught(res, stderr)
                     /\ UNCHANGED <<idx, identifiers, stdout>>
                ELSE /\ IF Truthy(res.identifier)
                          THEN /\ identifiers' = Append(identifiers, res.identifier)
                               /\ stdout' = stdout \o <<Line("ok", res.identifier, title),
                                                        Line("url", res.url, ""),
                                                        Line("blank", "", "")>>
                          ELSE /\ identifiers' = Append(identifiers, EmptyStr)
                               /\ stdout' = stdout \o <<Line("failed", title, ""),
                                                        Line("blank", "", "")>>
                     /\ idx' = idx + 1
                     /\ pc' = IF idx = NumTickets THEN "summary" ELSE "create"
                     /\ UNCHANGED <<exitCode, exitPath, stderr>>
  /\ UNCHANGED <<env, API_KEY, TEAM_KEY, requests, team_id, team_name, startCount, run>>

\* Lines 114-116: one line per non-empty identifier
IdentLines(vals) == [j \in 1..Len(Filtered(vals)) |-> Line("ident", Filtered(vals)[j], "")]

\* Lines 111-119: the summary, the space-joined line, and the end of main.
Summary ==
  /\ pc = "summary"
  /\ LET head == stdout \o <<Line("rule", "", ""), Line("created_issues", "", ""),
                             Line("rule", "", "")>>
                        \o IdentLines(identifiers)
                        \o <<Line("blank", "", ""), Line("ids_label", "", "")>>
         joined == Join(<<" ">>, Filtered(identifiers))
     IN  IF IsRaise(joined)
           THEN /\ stdout' = head
                /\ Uncaught(joined, stderr)
           ELSE /\ stdout' = Append(head, Line("joined", joined, ""))
                /\ Exit(0, "end_of_main")
                /\ UNCHANGED stderr
  /\ UNCHANGED <<env, API_KEY, TEAM_KEY, requests, inflight, response, team_id, team_name, idx,
                 identifiers, created, remoteCount, startCount, run>>

\* The script is run again, in some environment, against the same service.
Rerun ==
  /\ pc = "exited"
  /\ run < MaxRuns
  /\ run' = run + 1
  /\ startCount' = remoteCount
  /\ UNCHANGED remoteCount
  /\ \E e \in Envs : env' = e
  /\ API_KEY' = ""
  /\ TEAM_KEY' = ""
  /\ pc' = "load"
  /\ exitCode' = -1
  /\ exitPath' = "none"
  /\ requests' = <<>>
  /\ inflight' = 0
  /\ response' = NoResponse
  /\ team_id' = Null
  /\ team_name' = Null
  /\ idx' = 0
  /\ identifiers' = <<>>
  /\ stdout' = <<>>
  /\ stderr' = <<>>
  /\ created' = {}

Next ==
  \/ Startup
  \/ SendLookup
  \/ RecvLookup
  \/ SendListing
  \/ RecvListing
  \/ SendCreate
  \/ RecvCreate
  \/ Summary

NextRuns ==
  \/ Next
  \/ Rerun

\* One invocation of the script.
Spec == Init /\ [][Next]_vars

\* Successive invocations against the same remote service.
SpecRuns == Init /\ [][NextRuns]_vars


(***************************************************************************)
(* Vocabulary of the properties.                                           *)
(***************************************************************************)
IsOk(l) == l.kind = "ok"
IsResult(l) == l.kind \in {"ok", "failed"}
IsIdent(l) == l.kind = "ident"
IsJoined(l) == l.kind = "joined"
IsSummaryHead(l) == l.kind = "created_issues"
IsNoTeam(l) == l.kind = "error" /\ l.x = "No team found with key"

OkLines == SelectSeq(stdout, IsOk)
ResultLines == SelectSeq(stdout, IsResult)
ListedLines == SelectSeq(stdout, IsIdent)
JoinedLines == SelectSeq(stdout, IsJoined)
SummaryPrinted == Len(SelectSeq(stdout, IsSummaryHead)) > 0
NoTeamFound == Len(SelectSeq(stderr, IsNoTeam)) > 0

Exited == pc = "exited"
Completed == Exited /\ exitPath = "end_of_main"
IsMutation(r) == r.query = "issueCreate"
Mutations == SelectSeq(requests, IsMutation)
\* the response just read answers a mutation
MutationAnswered ==
  /\ Len(requests) > 0
  /\ IsMutation(requests[Len(requests)])
  /\ inflight = 0
  /\ response.net # "none"
\* a response that arrived and whose body is JSON text
ParsedJson(o) == o.net = "ok" /\ o.body \in JsonBodies

\* where the k-th of the strings ids starts in their space-joined line
RECURSIVE Offset(_, _)
Offset(ids, k) == IF k = 1 THEN 0 ELSE Offset(ids, k - 1) + Len(ids[k - 1].s) + 1

\* line is exactly the strings of ids, in order, one space between neighbours
SpaceJoined(line, ids) ==
  LET n == Len(ids)
  IN  /\ Len(line) = IF n = 0 THEN 0 ELSE Offset(ids, n) + Len(ids[n].s)
      /\ \A k \in 1..n :
           /\ SubSeq(line, Offset(ids, k) + 1, Offset(ids, k) + Len(ids[k].s)) = ids[k].s
           /\ k < n => line[Offset(ids, k) + Len(ids[k].s) + 1] = " "

(***************************************************************************)
(* C1.  When main runs to its end, the five drafts were reported in the    *)
(* order of TICKETS, the summary lists exactly the identifiers of the      *)
(* drafts reported as created (one line each, in that order, nothing for a *)
(* draft that failed), and the last line is those identifiers joined by    *)
(* single spaces.                                                          *)
(***************************************************************************)
C1_SummaryListsNonEmptyInOrder ==
  Completed =>
    /\ Len(ResultLines) = NumTickets
    /\ Len(identifiers) = NumTickets
    /\ \A k \in 1..NumTickets :
         /\ ResultLines[k].kind = "ok" => ResultLines[k].y = TICKETS[k].title
         /\ ResultLines[k].kind = "failed" => ResultLines[k].x = TICKETS[k].title
         /\ ResultLines[k].kind = "ok" => identifiers[k] = ResultLines[k].x
         /\ ResultLines[k].kind = "failed" => identifiers[k] = EmptyStr
    /\ Len(ListedLines) = Len(OkLines)
    /\ \A k \in 1..Len(OkLines) :
         /\ ListedLines[k].x = OkLines[k].x
         /\ Len(ListedLines[k].x.s) > 0
    /\ Len(JoinedLines) = 1
    /\ stdout[Len(stdout)].kind = "joined"
    /\ SpaceJoined(JoinedLines[1].x.s, [k \in 1..Len(OkLines) |-> OkLines[k].x])

\* a completed run with a failure between successes whose identifiers differ
C1_Witness ==
  /\ Completed
  /\ Len(OkLines) = 4
  /\ ResultLines[3].kind = "failed"
  /\ OkLines[1].x = S_ENG2
  /\ OkLines[2].x = S_ENG1
  /\ JoinedLines[1].x.s = S_ENG2.s \o <<" ">> \o S_ENG1.s \o <<" ">> \o OkLines[3].x.s
                            \o <<" ">> \o OkLines[4].x.s


(***************************************************************************)
(* C2.  As claimed: whenever the response to a draft's mutation is parsed  *)
(* JSON that is not a well-formed acceptance (it lacks the issue object,   *)
(* or one of its identifier and url), the loop goes on: a failure line     *)
(* with the draft's title is printed, the empty placeholder is recorded at *)
(* the draft's position, the list has one entry per draft attempted, and   *)
(* the process moves on to the next draft or to the summary.               *)
(***************************************************************************)
WellFormedAcceptance(o) == o.status = 200 /\ o.body \in {B_ok1, B_ok2, B_numIdent}

C2_ContinuesAfterAnyMalformedResponse ==
  (MutationAnswered /\ ParsedJson(response) /\ response.status = 200
     /\ ~WellFormedAcceptance(response) /\ ~SummaryPrinted) =>
    LET k == Len(Mutations)
    IN  /\ pc \in {"create", "summary"}
        /\ Len(identifiers) = k
        /\ identifiers[k] = EmptyStr
        /\ Len(ResultLines) = k
        /\ ResultLines[k] = Line("failed", TICKETS[k].title, "")
        /\ idx = k + 1

(***************************************************************************)
(* C3.  As claimed: on a parsed mutation response create_issue does not    *)
(* raise, and when the issue object, its identifier or its url is absent   *)
(* it returns the empty string for both the identifier and the url.        *)
(***************************************************************************)
IssueIncomplete(data) ==
  LET issue == IssueOf(data)
  IN  \/ IsRaise(issue)
      \/ issue.t # "obj"
      \/ "identifier" \notin DOMAIN issue.m
      \/ "url" \notin DOMAIN issue.m

C3_SoftFailureReturnsBothEmpty ==
  (MutationAnswered /\ ParsedJson(response) /\ response.status = 200) =>
    LET data == JsonLoads(response.body)
        res == create_issue(data)
    IN  /\ ~IsRaise(res)
        /\ IssueIncomplete(data) => (res.identifier = EmptyStr /\ res.url = EmptyStr)

(***************************************************************************)
(* C4.  Once the filtered lookup has yielded no nodes, the only request    *)
(* that follows is the unfiltered listing, no mutation is ever sent, the   *)
(* lookup is not repeated, and the process can only end with status 1,     *)
(* having issued exactly the two requests.                                 *)
(***************************************************************************)
C4_NoTeamExitsAfterTwoRequests ==
  NoTeamFound =>
    /\ pc \in {"listing", "listing_wait", "exited"}
    /\ Len(Mutations) = 0
    /\ requests[1].query = "teams_filtered"
    /\ Len(requests) <= 2
    /\ pc \in {"listing_wait", "exited"} =>
         /\ Len(requests) = 2
         /\ requests[2].query = "teams_all"
    /\ Exited => exitCode = 1

C4_Witness ==
  /\ NoTeamFound
  /\ Exited
  /\ exitPath = "unresolved_team"
  /\ response.body = B_all
  /\ Len(stderr) = 3

(***************************************************************************)
(* C5.  With LINEAR_API_KEY unset or empty, or LINEAR_TEAM_KEY unset or    *)
(* empty, the process never sends a request and can only end with status   *)
(* 1; the message is the API key's whenever the API key is missing,        *)
(* whatever the team key is.                                               *)
(***************************************************************************)
EnvMissing(name) == name \notin DOMAIN env \/ env[name] = ""

C5_MissingCredentialExitsBeforeAnyRequest ==
  (EnvMissing("LINEAR_API_KEY") \/ EnvMissing("LINEAR_TEAM_KEY")) =>
    /\ requests = <<>>
    /\ inflight = 0
    /\ pc \in {"load", "exited"}
    /\ Exited =>
         /\ exitCode = 1
         /\ exitPath = "missing_credential"
         /\ stderr[1].x = IF EnvMissing("LINEAR_API_KEY")
                            THEN "LINEAR_API_KEY env var is required."
                            ELSE "LINEAR_TEAM_KEY env var is required"

\* both are missing (the team key unset, the API key set but empty)
C5_Witness ==
  /\ Exited
  /\ "LINEAR_TEAM_KEY" \notin DOMAIN env
  /\ "LINEAR_API_KEY" \in DOMAIN env
  /\ env["LINEAR_API_KEY"] = ""
  /\ exitCode = 1
  /\ Len(stderr) = 3

(***************************************************************************)
(* C6.  As claimed: the process ends with status 0 exactly when it reaches *)
(* the end of main, and with a non-zero status only through a missing      *)
(* credential, an unresolved team, or a transport failure raised by        *)
(* graphql.                                                                *)
(***************************************************************************)
C6_NonZeroOnlyByThreePaths ==
  Exited =>
    /\ exitCode = 0 <=> exitPath = "end_of_main"
    /\ exitCode # 0 => exitPath \in {"missing_credential", "unresolved_team", "transport"}


(***************************************************************************)
(* C7.  As claimed: for any HTTP response whose body is valid JSON,        *)
(* graphql returns the decoded body and the process does not end by a      *)
(* transport failure.                                                      *)
(***************************************************************************)
C7_DecodesAnyJsonBody ==
  ParsedJson(response) =>
    /\ graphql(response) = JsonLoads(response.body)
    /\ exitPath # "transport"

(***************************************************************************)
(* C7 (amended).  For any HTTP response with a 2xx status whose body is    *)
(* valid JSON, graphql returns the decoded body, a body carrying `errors`  *)
(* included, and the process does not end by a transport failure.          *)
(***************************************************************************)
C7_DecodesJsonBodyOfSuccessStatus ==
  (ParsedJson(response) /\ response.status \in 200..299) =>
    /\ graphql(response) = JsonLoads(response.body)
    /\ ~IsRaise(graphql(response))
    /\ exitPath # "transport"

\* a mutation answered 200 with only `errors`: the caller got it and went on
C7_Witness ==
  /\ response = Http(200, B_errorsOnly)
  /\ MutationAnswered
  /\ pc = "create"
  /\ identifiers[Len(identifiers)] = EmptyStr

(***************************************************************************)
(* C8.  A run in which every mutation is accepted sends one mutation per   *)
(* draft and adds that many issues to the service, whatever the service    *)
(* already holds: a second such run after a first leaves ten.              *)
(***************************************************************************)
C8_EachAcceptedRunAddsFive ==
  (Completed /\ \A k \in 1..Len(identifiers) : k \in created) =>
    /\ Len(Mutations) = Len(TICKETS)
    /\ remoteCount = startCount + Len(TICKETS)
    /\ (run = 2 /\ startCount = Len(TICKETS)) => remoteCount = 2 * Len(TICKETS)

C8_Witness ==
  /\ Completed
  /\ run = 2
  /\ startCount = 5
  /\ created = 1..5
  /\ remoteCount = 10

(***************************************************************************)
(* C9.  As claimed: at most one request is outstanding, and a run that     *)
(* resolved the team and met no transport failure ends having issued       *)
(* exactly six requests: the filtered lookup, then one mutation per draft  *)
(* in the order of TICKETS, each with its draft's title and description    *)
(* and the id of the first node of the lookup.                             *)
(***************************************************************************)
C9_SixSequentialRequests ==
  /\ inflight \in {0, 1}
  /\ (Exited /\ team_id.t # "null" /\ exitPath # "transport") =>
       /\ Len(requests) = 1 + NumTickets
       /\ requests[1] = Request("teams_filtered", TEAM_KEY, Null, "", "")
       /\ \A k \in 1..NumTickets :
            requests[k + 1] = Request("issueCreate", "", S_t1, TICKETS[k].title,
                                      TICKETS[k].description)

(***************************************************************************)
(* C10.  As claimed: a mutation is sent only with both credentials set and *)
(* the team resolved; a run that sent no mutation created nothing; and a   *)
(* transport failure during the k-th mutation leaves exactly the issues of *)
(* drafts 1..k-1 created and no summary printed.                           *)
(***************************************************************************)
MutationNeedsResolvedTeam ==
  Len(Mutations) > 0 =>
    /\ API_KEY # ""
    /\ TEAM_KEY # ""
    /\ team_id.t # "null"
    /\ requests[1].query = "teams_filtered"
    /\ ~NoTeamFound

AbortBeforeCreationCreatesNothing ==
  Len(Mutations) = 0 =>
    /\ created = {}
    /\ remoteCount = startCount

TransportFailedInMutation == Exited /\ exitPath = "transport" /\ Len(Mutations) > 0

C10_ExactlyEarlierDraftsCreated ==
  /\ MutationNeedsResolvedTeam
  /\ AbortBeforeCreationCreatesNothing
  /\ TransportFailedInMutation =>
       /\ created = 1..(Len(Mutations) - 1)
       /\ ~SummaryPrinted

(***************************************************************************)
(* C10 (amended).  As C10, except that a transport failure during the k-th *)
(* mutation ends the run with no summary and with mutations sent for       *)
(* drafts 1..k only, so that no issue of a later draft exists: the issues  *)
(* created are among those of drafts 1..k.                                 *)
(***************************************************************************)
C10_OnlyDraftsUpToFailureCreated ==
  /\ MutationNeedsResolvedTeam
  /\ AbortBeforeCreationCreatesNothing
  /\ (MutationAnswered /\ IsRaise(graphql(response))) => TransportFailedInMutation
  /\ TransportFailedInMutation =>
       /\ created \subseteq 1..Len(Mutations)
       /\ remoteCount = startCount + Cardinality(created)
       /\ \A k \in 1..Len(Mutations) : Mutations[k].title = TICKETS[k].title
       /\ Len(identifiers) = Len(Mutations) - 1
       /\ ~SummaryPrinted

\* the first draft rejected, the second accepted, the third lost in transport
C10_Witness ==
  /\ TransportFailedInMutation
  /\ Len(Mutations) = 3
  /\ created = {2}
  /\ response = NetFail

====
